---- MODULE Spec2Model ----
(***************************************************************************)
(* Model of src/app.py: a Streamlit script that merges two CSV files       *)
(* (invoice headers and invoice items) with pandas and hands the merged    *)
(* DataFrame to a LangChain agent that answers chat questions.             *)
(*                                                                         *)
(* Conventions.                                                            *)
(*  - A Python value that may be None is a sequence: <<>> is None and      *)
(*    <<v>> is the value v.                                                *)
(*  - Cell values are strings; "NaN" is pandas' missing value and "NaT"    *)
(*    the missing value of a datetime64 column.                            *)
(*  - A DataFrame is [cols, dtypes, rows]: the set of column names, the    *)
(*    dtype of each column ("object" stands for every dtype read_csv       *)
(*    infers, "datetime64[ns]" for a column converted by pd.to_datetime)   *)
(*    and the sequence of rows, each a function from cols to cell values.  *)
(*    `col in df.columns` is a membership test, so the order of the        *)
(*    columns is not represented.                                          *)
(***************************************************************************)
EXTENDS Naturals, Sequences, FiniteSets, TLC

VARIABLES
    gemini_api_key,      \* st.text_input value of the last script run
    uploaded_cabecalho,  \* st.file_uploader value (None or a source)
    uploaded_itens,      \* st.file_uploader value (None or a source)
    prompt,              \* st.chat_input value of the last script run
    resultado,           \* None, or what carregar_e_preparar_dados did in
                         \* the last script run (return value, st.error)
    agent_executor,      \* st.session_state.agent_executor
    messages,            \* st.session_state.messages
    ui,                  \* the st.* elements the last script run displayed
    exc,                 \* uncaught exception that ended the last script run
    invoked              \* the agent invoked by the last script run

vars == <<gemini_api_key, uploaded_cabecalho, uploaded_itens, prompt,
          resultado, agent_executor, messages, ui, exc, invoked>>

-----------------------------------------------------------------------------
(* Bounds of the model *)

\* rows per CSV file in the inputs of carregar_e_preparar_dados
MaxRows == 2
\* prompts submitted in one session
MaxPrompts == 2

-----------------------------------------------------------------------------
(* Python values *)

None == <<>>
Some(v) == <<v>>
NaN == "NaN"
NaT == "NaT"

-----------------------------------------------------------------------------
(* The CSV sources *)

\* A file whose text pd.read_csv cannot parse.
Malformed == [ok |-> FALSE, cols |-> {}, rows |-> <<>>]

\* The values a column of the bounded inputs may hold.  The items carry the
\* invoice numbers 1 and 2 and the headers 1 and 3, so that an item may have
\* no header and a header no item.
ColDomain(c, cabecalho) ==
    CASE c = "NÚMERO"      -> IF cabecalho THEN {"1", "3"} ELSE {"1", "2"}
      [] c = "DataEmissao" -> {"2024-01-15", "abc", NaN}
      [] c = "DataEntrada" -> {"2024-01-15", "abc"}
      [] c = "Fornecedor"  -> {"ACME"}
      [] c = "Produto"     -> {"Widget", "Gadget"}
      [] c = "Valor"       -> {"10"}
      [] OTHER             -> {NaN}

AllValues ==
    {"1", "2", "3", "2024-01-15", "abc", NaN, "ACME", "Widget", "Gadget", "10"}

RowsOver(cols, cabecalho) ==
    {r \in [cols -> AllValues] : \A c \in cols : r[c] \in ColDomain(c, cabecalho)}

SeqsUpTo(S, n) == UNION {[1..k -> S] : k \in 0..n}

CsvOver(cols, cabecalho) ==
    {[ok |-> TRUE, cols |-> cols, rows |-> rs] :
        rs \in SeqsUpTo(RowsOver(cols, cabecalho), MaxRows)}

HeaderSchemas ==
    { {"NÚMERO", "Fornecedor"},
      {"NÚMERO", "DataEmissao", "DataEntrada"},
      {"Fornecedor", "DataEmissao"},
      {"NÚMERO", "Fornecedor", "Valor"} }

ItemSchemas ==
    { {"NÚMERO", "Produto"},
      {"Produto"},
      {"NÚMERO", "Valor"} }

HeaderSources == {Malformed} \cup UNION {CsvOver(s, TRUE) : s \in HeaderSchemas}
ItemSources == {Malformed} \cup UNION {CsvOver(s, FALSE) : s \in ItemSchemas}

-----------------------------------------------------------------------------
(* pandas *)

\* pd.read_csv(arquivo, sep=',', decimal='.'): raises on text it cannot
\* parse, else the DataFrame of the file.
read_csv(arquivo) ==
    IF arquivo.ok
    THEN [raised |-> FALSE,
          df |-> [cols |-> arquivo.cols,
                  dtypes |-> [c \in arquivo.cols |-> "object"],
                  rows |-> arquivo.rows]]
    ELSE [raised |-> TRUE,
          df |-> [cols |-> {}, dtypes |-> <<>>, rows |-> <<>>]]

\* The value pd.to_datetime gives one cell; "error" when it raises.
to_datetime_value(v) ==
    CASE v = "2024-01-15" -> "Timestamp('2024-01-15 00:00:00')"
      [] v = NaN          -> NaT
      [] OTHER            -> "error"

\* Mutant of to_datetime: errors='coerce', a value that cannot be parsed
\* becomes NaT and nothing is raised.
to_datetime_coerce(df, col) ==
    [raised |-> FALSE,
     df |-> [cols |-> df.cols,
             dtypes |-> [df.dtypes EXCEPT ![col] = "datetime64[ns]"],
             rows |-> [i \in 1..Len(df.rows) |->
                         [df.rows[i] EXCEPT ![col] =
                            IF to_datetime_value(@) = "error" THEN NaT
                            ELSE to_datetime_value(@)]]]]

\* pd.to_datetime(df[col]) with the default errors='raise'.
to_datetime(df, col) ==
    IF \E i \in 1..Len(df.rows) : to_datetime_value(df.rows[i][col]) = "error"
    THEN [raised |-> TRUE, df |-> df]
    ELSE [raised |-> FALSE,
          df |-> [cols |-> df.cols,
                  dtypes |-> [df.dtypes EXCEPT ![col] = "datetime64[ns]"],
                  rows |-> [i \in 1..Len(df.rows) |->
                              [df.rows[i] EXCEPT ![col] = to_datetime_value(@)]]]]

\* The suffixes pd.merge gives a column that both frames have beside the key.
suffix_x(c) == IF c = "Valor" THEN "Valor_x" ELSE c
suffix_y(c) == IF c = "Valor" THEN "Valor_y" ELSE c

left_name(c, left, right, on) ==
    IF c # on /\ c \in right.cols THEN suffix_x(c) ELSE c
right_name(c, left, right, on) ==
    IF c # on /\ c \in left.cols THEN suffix_y(c) ELSE c

\* The missing value of a column of the given dtype.
na_value(dtype) == IF dtype = "datetime64[ns]" THEN NaT ELSE NaN

\* Indices of the rows of `right` whose key equals that of the left row,
\* in the order of `right`.
RECURSIVE matches_from(_, _, _, _)
matches_from(lrow, right, on, j) ==
    IF j > Len(right.rows) THEN <<>>
    ELSE (IF right.rows[j][on] = lrow[on] THEN <<j>> ELSE <<>>)
         \o matches_from(lrow, right, on, j + 1)

merged_cols(left, right, on) ==
    {on} \cup {left_name(c, left, right, on) : c \in left.cols \ {on}}
         \cup {right_name(c, left, right, on) : c \in right.cols \ {on}}

\* One row of the result: a left row with a right row (j > 0) or with the
\* right frame's columns missing (j = 0).
merged_row(lrow, j, left, right, on) ==
    [m \in merged_cols(left, right, on) |->
        IF m = on THEN lrow[on]
        ELSE IF \E c \in left.cols \ {on} : left_name(c, left, right, on) = m
        THEN lrow[CHOOSE c \in left.cols \ {on} : left_name(c, left, right, on) = m]
        ELSE LET c == CHOOSE d \in right.cols \ {on} : right_name(d, left, right, on) = m
             IN IF j = 0 THEN na_value(right.dtypes[c]) ELSE right.rows[j][c]]

\* Mutant of left_rows_for: how='inner', a left row without a match is dropped.
left_rows_for_inner(lrow, left, right, on) ==
    LET ms == matches_from(lrow, right, on, 1)
    IN [k \in 1..Len(ms) |-> merged_row(lrow, ms[k], left, right, on)]

\* Mutant of left_rows_for: the right frame is deduplicated on the key, a
\* left row is joined with its first match only.
left_rows_for_first(lrow, left, right, on) ==
    LET ms == matches_from(lrow, right, on, 1)
    IN IF ms = <<>>
       THEN <<merged_row(lrow, 0, left, right, on)>>
       ELSE <<merged_row(lrow, ms[1], left, right, on)>>

\* The rows a left row contributes under how='left'.
left_rows_for(lrow, left, right, on) ==
    LET ms == matches_from(lrow, right, on, 1)
    IN IF ms = <<>>
       THEN <<merged_row(lrow, 0, left, right, on)>>
       ELSE [k \in 1..Len(ms) |-> merged_row(lrow, ms[k], left, right, on)]

RECURSIVE merge_rows(_, _, _, _)
merge_rows(left, right, on, i) ==
    IF i > Len(left.rows) THEN <<>>
    ELSE left_rows_for(left.rows[i], left, right, on)
         \o merge_rows(left, right, on, i + 1)

\* pd.merge(left, right, on=on, how='left')
merge(left, right, on) ==
    [cols |-> merged_cols(left, right, on),
     dtypes |-> [m \in merged_cols(left, right, on) |->
                   IF \E c \in right.cols \ {on} :
                        /\ right_name(c, left, right, on) = m
                        /\ right.dtypes[c] = "datetime64[ns]"
                   THEN "datetime64[ns]" ELSE "object"],
     rows |-> merge_rows(left, right, on, 1)]

-----------------------------------------------------------------------------
(* carregar_e_preparar_dados *)

colunas_candidatas == <<"NÚMERO">>

\* Mutant of coluna_chave_from: the loop stops one candidate early.
RECURSIVE coluna_chave_from_short(_, _, _, _)
coluna_chave_from_short(candidatas, df_cabecalho, df_itens, n) ==
    IF n >= Len(candidatas) THEN None
    ELSE IF candidatas[n] \in df_cabecalho.cols /\ candidatas[n] \in df_itens.cols
    THEN Some(candidatas[n])
    ELSE coluna_chave_from_short(candidatas, df_cabecalho, df_itens, n + 1)

\* The loop over colunas_candidatas: the first candidate that is a column of
\* both frames, None when there is none.
RECURSIVE coluna_chave_from(_, _, _, _)
coluna_chave_from(candidatas, df_cabecalho, df_itens, n) ==
    IF n > Len(candidatas) THEN None
    ELSE IF candidatas[n] \in df_cabecalho.cols /\ candidatas[n] \in df_itens.cols
    THEN Some(candidatas[n])
    ELSE coluna_chave_from(candidatas, df_cabecalho, df_itens, n + 1)

\* The text st.error shows when no candidate is common to both files, with
\* the column names the text cites.
MsgSemColuna ==
    [texto |-> "Erro: Não foi possível encontrar uma coluna em comum para unir os arquivos. Verifique se ambos possuem uma coluna como 'ChaveNF' ou 'ID_NF'.",
     colunas_citadas |-> {"ChaveNF", "ID_NF"},
     causa |-> ""]

\* The text st.error shows in the except branch, for the exception e.
MsgErroCarga(e) ==
    [texto |-> "Ocorreu um erro ao carregar ou processar os arquivos: {e}",
     colunas_citadas |-> {},
     causa |-> e]

\* `return None`
RetNone == [tupla |-> FALSE, df |-> None, chave |-> None]
\* `return None, None`
RetNoneNone == [tupla |-> TRUE, df |-> None, chave |-> None]
\* `return df_completo, coluna_chave`
RetOk(df_completo, coluna_chave) ==
    [tupla |-> TRUE, df |-> Some(df_completo), chave |-> Some(coluna_chave)]

\* The except branch.
Except(e) == [ret |-> RetNoneNone, erro |-> Some(MsgErroCarga(e))]

\* The two date conversions of the header frame.
converter_datas(df_cabecalho) ==
    LET d1 == IF "DataEmissao" \in df_cabecalho.cols
              THEN to_datetime(df_cabecalho, "DataEmissao")
              ELSE [raised |-> FALSE, df |-> df_cabecalho]
        d2 == IF d1.raised THEN d1
              ELSE IF "DataEntrada" \in d1.df.cols
              THEN to_datetime(d1.df, "DataEntrada")
              ELSE d1
    IN d2

\* The outcome once the key is known.
unir(df_cabecalho, df_itens, coluna_chave) ==
    LET datas == converter_datas(df_cabecalho)
    IN IF datas.raised THEN Except("DateParseError")
       ELSE [ret |-> RetOk(merge(df_itens, datas.df, coluna_chave), coluna_chave),
             erro |-> None]

\* What `if not coluna_chave` does with the outcome of the search.
sem_coluna_chave(coluna_chave) == coluna_chave = None

carregar_e_preparar_dados(arquivo_cabecalho, arquivo_itens) ==
    LET lido_cabecalho == read_csv(arquivo_cabecalho)
        lido_itens == read_csv(arquivo_itens)
    IN IF lido_cabecalho.raised \/ lido_itens.raised
       THEN Except("ParserError")
       ELSE LET coluna_chave ==
                    coluna_chave_from(colunas_candidatas, lido_cabecalho.df,
                                      lido_itens.df, 1)
            IN IF sem_coluna_chave(coluna_chave)
               THEN [ret |-> RetNone, erro |-> Some(MsgSemColuna)]
               ELSE unir(lido_cabecalho.df, lido_itens.df, coluna_chave[1])

-----------------------------------------------------------------------------
(* criar_agente *)

\* The agent create_pandas_dataframe_agent builds holds the DataFrame and the
\* LLM (with its API key) it was given.  `construido` is whether the two
\* constructors returned (TRUE) or one of them raised (FALSE).
criar_agente(df, api_key, construido) ==
    IF construido
    THEN [ret |-> Some([df |-> df, api_key |-> api_key]), erro |-> None]
    ELSE [ret |-> None,
          erro |-> Some("Falha ao criar o agente. Verifique sua chave de API. Erro: {e}")]

-----------------------------------------------------------------------------
(* The script *)

El(el, texto) == [el |-> el, texto |-> texto]

\* The st.error elements a call of a function displayed.
Erros(erro) == IF erro = None THEN <<>> ELSE <<El("error", erro[1])>>

\* Truth value of the API key (a string) and of an uploaded file (or None).
TruthyStr(v) == v # ""
TruthyFile(v) == v # None

\* Mutant of DeveCarregar: the files are loaded only while there is no agent.
DeveCarregarUmaVez(key, cabecalho, itens, agent) ==
    TruthyStr(key) /\ TruthyFile(cabecalho) /\ TruthyFile(itens) /\ agent = None

\* `if gemini_api_key and uploaded_cabecalho and uploaded_itens`
DeveCarregar(key, cabecalho, itens, agent) ==
    TruthyStr(key) /\ TruthyFile(cabecalho) /\ TruthyFile(itens)

\* Mutant of DeveCriarAgente: the agent is built on every successful merge.
DeveCriarAgenteSempre(df_completo, agent) == df_completo # None

\* `if df_completo is not None` and `if st.session_state.agent_executor is None`
DeveCriarAgente(df_completo, agent) == df_completo # None /\ agent = None

\* "Logica Principal": the run of carregar_e_preparar_dados, the unpacking of
\* what it returned and the construction of the agent.  `exc` is the
\* exception that leaves the script, None when there is none.
LogicaPrincipal(key, cabecalho, itens, agent, construido) ==
    IF ~DeveCarregar(key, cabecalho, itens, agent)
    THEN [exc |-> None, resultado |-> None, agent_executor |-> agent, ui |-> <<>>]
    ELSE LET r == carregar_e_preparar_dados(cabecalho[1], itens[1])
         IN IF ~r.ret.tupla
            THEN \* df_completo, chave = None
                 [exc |-> Some("TypeError: cannot unpack non-iterable NoneType object"),
                  resultado |-> Some(r),
                  agent_executor |-> agent,
                  ui |-> Erros(Some(r.erro[1].texto))]
            ELSE IF DeveCriarAgente(r.ret.df, agent)
            THEN LET a == criar_agente(r.ret.df[1], key, construido)
                 IN [exc |-> None,
                     resultado |-> Some(r),
                     agent_executor |-> a.ret,
                     ui |-> Erros(a.erro)
                            \o <<El("success", "Agente inicializado com sucesso! Dados unidos pela coluna '{chave}'."),
                                 El("dataframe", "df_completo.head()")>>]
            ELSE [exc |-> None,
                  resultado |-> Some(r),
                  agent_executor |-> agent,
                  ui |-> IF r.erro = None THEN <<>> ELSE Erros(Some(r.erro[1].texto))]

\* Whether "Logica Principal" reaches the call of criar_agente.
ChamaCriarAgente(key, cabecalho, itens, agent) ==
    /\ DeveCarregar(key, cabecalho, itens, agent)
    /\ LET r == carregar_e_preparar_dados(cabecalho[1], itens[1])
       IN r.ret.tupla /\ DeveCriarAgente(r.ret.df, agent)

Msg(role, content) == [role |-> role, content |-> content]

\* "Exibe mensagens do historico"
Historico(msgs) == [n \in 1..Len(msgs) |-> El("chat_message", msgs[n].content)]

RespostaDoAgente == "response['output']"
ErroNaPergunta == "Ocorreu um erro ao executar a sua pergunta: {e}"
AvisoSemAgente ==
    "Por favor, insira sua chave de API e carregue os arquivos na barra lateral para começar."

\* "Interacao do Chat": `respondeu` is whether agent_executor.invoke returned
\* (TRUE) or raised (FALSE).
Chat(msgs, agent, p, respondeu) ==
    IF p = None
    THEN [messages |-> msgs, invoked |-> None, ui |-> <<>>]
    ELSE LET com_user == Append(msgs, Msg("user", p[1]))
         IN IF agent # None
            THEN IF respondeu
                 THEN [messages |-> Append(com_user, Msg("assistant", RespostaDoAgente)),
                       invoked |-> agent,
                       ui |-> <<El("chat_message", p[1]), El("chat_message", RespostaDoAgente)>>]
                 ELSE [messages |-> Append(com_user, Msg("assistant", ErroNaPergunta)),
                       invoked |-> agent,
                       ui |-> <<El("chat_message", p[1]), El("error", ErroNaPergunta)>>]
            ELSE [messages |-> com_user,
                  invoked |-> None,
                  ui |-> <<El("chat_message", p[1]), El("warning", AvisoSemAgente)>>]

\* The sources a user uploads in the session.
Row2(c1, v1, c2, v2) == (c1 :> v1) @@ (c2 :> v2)
Row3(c1, v1, c2, v2, c3, v3) == (c1 :> v1) @@ (c2 :> v2) @@ (c3 :> v3)

CabecalhoA ==
    [ok |-> TRUE, cols |-> {"NÚMERO", "Fornecedor"},
     rows |-> <<Row2("NÚMERO", "1", "Fornecedor", "ACME")>>]
CabecalhoB ==
    [ok |-> TRUE, cols |-> {"NÚMERO", "Fornecedor"},
     rows |-> <<Row2("NÚMERO", "2", "Fornecedor", "Beta")>>]
CabecalhoSemChave ==
    [ok |-> TRUE, cols |-> {"Fornecedor", "DataEmissao"},
     rows |-> <<Row2("Fornecedor", "ACME", "DataEmissao", "2024-01-15")>>]
CabecalhoDataRuim ==
    [ok |-> TRUE, cols |-> {"NÚMERO", "DataEmissao", "DataEntrada"},
     rows |-> <<Row3("NÚMERO", "1", "DataEmissao", "abc", "DataEntrada", NaN)>>]
ItensA ==
    [ok |-> TRUE, cols |-> {"NÚMERO", "Produto"},
     rows |-> <<Row2("NÚMERO", "1", "Produto", "Widget"),
                Row2("NÚMERO", "2", "Produto", "Gadget")>>]

ApiKeys == {"", "key-1", "key-2"}
Cabecalhos == {None, Some(CabecalhoA), Some(CabecalhoB), Some(CabecalhoSemChave),
               Some(CabecalhoDataRuim)}
Itens == {None, Some(ItensA)}
Prompts == {None, Some("Qual o fornecedor com maior valor total de notas?")}

NUser(msgs) == Cardinality({n \in 1..Len(msgs) : msgs[n].role = "user"})
NAssistant(msgs) == Cardinality({n \in 1..Len(msgs) : msgs[n].role = "assistant"})

\* A new browser session: st.session_state is empty (agent_executor and
\* messages are written as the values the script gives them on first use)
\* and no script run has happened.
Init ==
    /\ gemini_api_key = ""
    /\ uploaded_cabecalho = None
    /\ uploaded_itens = None
    /\ prompt = None
    /\ resultado = None
    /\ agent_executor = None
    /\ messages = <<>>
    /\ ui = <<>>
    /\ exc = None
    /\ invoked = None

\* One run of the script, top to bottom, with the widget values of the run.
\* An exception that leaves "Logica Principal" ends the run there.
ScriptRun(key, cabecalho, itens, p, construido, respondeu) ==
    LET lp == LogicaPrincipal(key, cabecalho, itens, agent_executor, construido)
        chat == Chat(messages, lp.agent_executor, p, respondeu)
    IN /\ p # None => NUser(messages) < MaxPrompts
       \* a constructor or an invocation that is not reached has no outcome
       /\ ~ChamaCriarAgente(key, cabecalho, itens, agent_executor) => construido
       /\ ~(lp.exc = None /\ p # None /\ lp.agent_executor # None) => respondeu
       /\ gemini_api_key' = key
       /\ uploaded_cabecalho' = cabecalho
       /\ uploaded_itens' = itens
       /\ prompt' = p
       /\ resultado' = lp.resultado
       /\ agent_executor' = lp.agent_executor
       /\ exc' = lp.exc
       /\ IF lp.exc # None
          THEN /\ messages' = messages
               /\ invoked' = None
               /\ ui' = lp.ui
          ELSE /\ messages' = chat.messages
               /\ invoked' = chat.invoked
               /\ ui' = lp.ui \o Historico(messages) \o chat.ui

Next ==
    \E key \in ApiKeys, cabecalho \in Cabecalhos, itens \in Itens, p \in Prompts,
       construido \in BOOLEAN, respondeu \in BOOLEAN :
        ScriptRun(key, cabecalho, itens, p, construido, respondeu)

Spec == Init /\ [][Next]_vars

-----------------------------------------------------------------------------
(* carregar_e_preparar_dados on every pair of bounded sources *)

InitMerge ==
    /\ gemini_api_key = ""
    /\ uploaded_cabecalho \in {Some(a) : a \in HeaderSources}
    /\ uploaded_itens \in {Some(a) : a \in ItemSources}
    /\ prompt = None
    /\ resultado = None
    /\ agent_executor = None
    /\ messages = <<>>
    /\ ui = <<>>
    /\ exc = None
    /\ invoked = None

CallMerge ==
    /\ resultado = None
    /\ resultado' = Some(carregar_e_preparar_dados(uploaded_cabecalho[1], uploaded_itens[1]))
    /\ ui' = Erros(IF resultado'[1].erro = None THEN None ELSE Some(resultado'[1].erro[1].texto))
    /\ UNCHANGED <<gemini_api_key, uploaded_cabecalho, uploaded_itens, prompt,
                   agent_executor, messages, exc, invoked>>

NextMerge == CallMerge

SpecMerge == InitMerge /\ [][NextMerge]_vars

-----------------------------------------------------------------------------
(* Vocabulary of the properties *)

\* carregar_e_preparar_dados ran (in the last script run, or in CallMerge).
Called == resultado # None
Out == resultado[1]

\* The two files as parsed tables.
Parsed == uploaded_cabecalho[1].ok /\ uploaded_itens[1].ok
Cab == uploaded_cabecalho[1]
Its == uploaded_itens[1]

\* Candidate n is a column of both tables.
Shared(n) == colunas_candidatas[n] \in Cab.cols /\ colunas_candidatas[n] \in Its.cols
SomeShared == \E n \in 1..Len(colunas_candidatas) : Shared(n)
FirstShared ==
    colunas_candidatas[CHOOSE n \in 1..Len(colunas_candidatas) :
                          Shared(n) /\ \A m \in 1..(n - 1) : ~Shared(m)]

DateColumns == {"DataEmissao", "DataEntrada"}
IsDate(v) == v = "2024-01-15"
IsMissing(v) == v \in {NaN, NaT}
\* A recognized date column of the header holds a value that is no date.
BadDate ==
    \E c \in DateColumns \cap Cab.cols : \E j \in 1..Len(Cab.rows) :
        ~IsDate(Cab.rows[j][c]) /\ Cab.rows[j][c] # NaN

\* The outcomes of carregar_e_preparar_dados.
Succeeded == Out.ret.df # None /\ Out.ret.chave # None /\ Out.erro = None
IsLoadError ==
    /\ Out.ret = RetNoneNone
    /\ Out.erro # None
    /\ Out.erro[1].texto = MsgErroCarga("").texto
IsNoJoinKeyError ==
    /\ Out.ret.df = None /\ Out.ret.chave = None
    /\ Out.erro # None
    /\ Out.erro[1].texto = MsgSemColuna.texto

Merged == Out.ret.df[1]
JoinKey == Out.ret.chave[1]

\* Number of header rows carrying the JoinKey value of item row i.
HeaderMatches(i) ==
    Cardinality({j \in 1..Len(Cab.rows) : Cab.rows[j][JoinKey] = Its.rows[i][JoinKey]})

RECURSIVE ExpectedRows(_)
ExpectedRows(i) ==
    IF i = 0 THEN 0
    ELSE ExpectedRows(i - 1) + (IF HeaderMatches(i) = 0 THEN 1 ELSE HeaderMatches(i))

\* The name a column of the items / of the header has in the merged table.
ItemColumn(c) == IF c # JoinKey /\ c \in Cab.cols THEN suffix_x(c) ELSE c
HeaderColumn(c) == IF c # JoinKey /\ c \in Its.cols THEN suffix_y(c) ELSE c

\* Merged row m carries item row i.
CarriesItem(m, i) == \A c \in Its.cols : Merged.rows[m][ItemColumn(c)] = Its.rows[i][c]
\* Merged row m carries the attributes of header row j (dates as date values).
CarriesHeader(m, j) ==
    \A c \in Cab.cols \ {JoinKey} :
        Merged.rows[m][HeaderColumn(c)] =
            (IF c \in DateColumns
             THEN (IF IsDate(Cab.rows[j][c])
                   THEN "Timestamp('2024-01-15 00:00:00')" ELSE NaT)
             ELSE Cab.rows[j][c])
\* Merged row m has every header attribute missing.
HeaderMissing(m) ==
    \A c \in Cab.cols \ {JoinKey} : IsMissing(Merged.rows[m][HeaderColumn(c)])

-----------------------------------------------------------------------------
(* Properties of carregar_e_preparar_dados, checked under SpecMerge *)

\* C2 (as claimed): whenever merge returns a table, it has as many rows as
\* the items table, whatever the number of header rows (zero, one or several)
\* that carry the same JoinKey value.
C2_RowCountEqualsItems ==
    (Called /\ Succeeded) => Len(Merged.rows) = Len(Its.rows)

\* C2 (amended): whenever merge returns a table, each item row appears once
\* if zero or one header row carries its JoinKey value and k times if k >= 2
\* header rows carry it; so the number of rows equals that of the items table
\* exactly when no item row is matched by several header rows.
C2_RowCountLeftJoin ==
    (Called /\ Succeeded) =>
        /\ Len(Merged.rows) = ExpectedRows(Len(Its.rows))
        /\ \A i \in 1..Len(Its.rows) :
             Cardinality({m \in 1..Len(Merged.rows) : CarriesItem(m, i)})
               >= (IF HeaderMatches(i) = 0 THEN 1 ELSE HeaderMatches(i))
        /\ (\A i \in 1..Len(Its.rows) : HeaderMatches(i) <= 1)
             => Len(Merged.rows) = Len(Its.rows)

\* Witness of C2: a merge of two item rows, one matched by two header rows
\* and one by none, that returned three rows.
C2_Witness ==
    /\ Called /\ Succeeded
    /\ Len(Its.rows) = 2
    /\ \E i, k \in 1..2 : HeaderMatches(i) = 2 /\ HeaderMatches(k) = 0
    /\ Len(Merged.rows) = 3

\* C3: in a successful merge, every item row whose JoinKey value is in no
\* header row is in the merged table with every header attribute missing;
\* every item row is there with the attributes of each header row that has
\* its JoinKey value; and every merged row is an item row (a header row
\* matched by no item row contributes none).
C3_UnmatchedKeptMatchedAnnotated ==
    (Called /\ Succeeded) =>
        /\ \A i \in 1..Len(Its.rows) :
             HeaderMatches(i) = 0 =>
                \E m \in 1..Len(Merged.rows) : CarriesItem(m, i) /\ HeaderMissing(m)
        /\ \A i \in 1..Len(Its.rows) : \A j \in 1..Len(Cab.rows) :
             Cab.rows[j][JoinKey] = Its.rows[i][JoinKey] =>
                \E m \in 1..Len(Merged.rows) : CarriesItem(m, i) /\ CarriesHeader(m, j)
        /\ \A m \in 1..Len(Merged.rows) :
             \E i \in 1..Len(Its.rows) : CarriesItem(m, i)
        /\ \A j \in 1..Len(Cab.rows) :
             (\A i \in 1..Len(Its.rows) : Its.rows[i][JoinKey] # Cab.rows[j][JoinKey])
                => \A m \in 1..Len(Merged.rows) :
                      Merged.rows[m][JoinKey] # Cab.rows[j][JoinKey]

\* Witness of C3: a successful merge with an item row that has a header, an
\* item row that has none and a header row that has no item.
C3_Witness ==
    /\ Called /\ Succeeded
    /\ \E i, k \in 1..Len(Its.rows) : HeaderMatches(i) = 1 /\ HeaderMatches(k) = 0
    /\ \E j \in 1..Len(Cab.rows) :
         \A i \in 1..Len(Its.rows) : Its.rows[i][JoinKey] # Cab.rows[j][JoinKey]
    /\ Len(Merged.rows) = 2

C5_LoadErrorOnBadInput ==
    Called =>
        /\ (~Parsed \/ (Cab.ok /\ BadDate)) => IsLoadError
        /\ (Out.ret.df = None) <=> (Out.ret.chave = None)

\* C5 (amended): whenever a source fails to parse, or both parse, share a
\* candidate key column and a recognized date column of the header holds a
\* value that is no date, merge ends in a LoadError with neither table nor
\* key; when both parse and share no candidate it ends in the no-key failure
\* whatever the dates hold; a table that is returned holds no raw text in a
\* recognized date column; in every outcome the table and the key are both
\* present or both absent.
C5_NoPartialResult ==
    Called =>
        /\ ~Parsed => IsLoadError
        /\ (Parsed /\ SomeShared /\ BadDate) => IsLoadError
        /\ (Parsed /\ ~SomeShared) => IsNoJoinKeyError
        /\ Succeeded =>
             \A c \in DateColumns \cap Cab.cols : \A m \in 1..Len(Merged.rows) :
                Merged.rows[m][HeaderColumn(c)]
                    \in {"Timestamp('2024-01-15 00:00:00')", NaT}
        /\ (Out.ret.df = None) <=> (Out.ret.chave = None)
        /\ Succeeded \/ IsLoadError \/ IsNoJoinKeyError

\* Witness of C5: both files parse and share the key, the emission date of
\* one header row is a date and that of the other is not, and merge ended in
\* a LoadError.
C5_Witness ==
    /\ Called /\ Parsed /\ SomeShared
    /\ "DataEmissao" \in Cab.cols
    /\ \E j, k \in 1..Len(Cab.rows) :
         IsDate(Cab.rows[j]["DataEmissao"]) /\ Cab.rows[k]["DataEmissao"] = "abc"
    /\ IsLoadError

\* C6: when no candidate is common to both tables, the message names the
\* candidate columns (the names it cites are those of colunas_candidatas)
\* and differs from the message of a LoadError.
C6_MessageNamesCandidates ==
    (Called /\ Parsed /\ ~SomeShared) =>
        /\ Out.erro # None
        /\ Out.erro[1].colunas_citadas =
              {colunas_candidatas[n] : n \in 1..Len(colunas_candidatas)}
        /\ Out.erro[1].texto # MsgErroCarga("").texto

-----------------------------------------------------------------------------
(* Properties of the session, checked under Spec *)

\* The widget values with which "Logica Principal" loads the files.
Supplied == TruthyStr(gemini_api_key) /\ uploaded_cabecalho # None /\ uploaded_itens # None
Warned == \E n \in 1..Len(ui) : ui[n] = El("warning", AvisoSemAgente)
FailedToCreate ==
    \E n \in 1..Len(ui) :
        ui[n] = El("error", "Falha ao criar o agente. Verifique sua chave de API. Erro: {e}")
IsPrefix(a, b) == Len(a) <= Len(b) /\ \A n \in 1..Len(a) : a[n] = b[n]

\* C1: for every pair of parsed tables that share no candidate column, merge
\* ends in the no-key failure (no table, no key) and the caller receives it:
\* the script run completes, without raising and without building an agent.
C1_NoKeyFailureReceived ==
    (Called /\ Parsed /\ ~SomeShared) =>
        /\ IsNoJoinKeyError
        /\ exc = None

C8_MergeOncePerFilePair ==
    [][ ( /\ Called /\ Succeeded
          /\ gemini_api_key' = gemini_api_key
          /\ uploaded_cabecalho' = uploaded_cabecalho
          /\ uploaded_itens' = uploaded_itens
          /\ prompt' # None )
        => resultado' = None ]_vars

\* C8 (amended): merge runs in every script run in which the key and both
\* files are supplied, and in no other; a rerun with the same key and files
\* runs it again and gets the same outcome again.
C8_MergeEveryRun ==
    [][ /\ (resultado' # None) <=>
              (TruthyStr(gemini_api_key') /\ uploaded_cabecalho' # None
                 /\ uploaded_itens' # None)
        /\ ( /\ Called
             /\ uploaded_cabecalho' = uploaded_cabecalho
             /\ uploaded_itens' = uploaded_itens
             /\ TruthyStr(gemini_api_key') )
           => resultado' = resultado
      ]_vars

\* Witness of C8: the second answered prompt of a session, in a run that is
\* given the key and the file pair the agent was built on, and in which merge
\* ran (again) and returned the table.
C8_Witness ==
    /\ NAssistant(messages) >= 2
    /\ prompt # None /\ invoked # None
    /\ Called /\ Succeeded
    /\ gemini_api_key = agent_executor[1].api_key
    /\ Merged = agent_executor[1].df

\* C9: the agent is invoked only while agent_executor is non-null;
\* agent_executor becomes non-null only in a run that was given the key and
\* both files and in which merge returned a table; in every other run with a
\* submitted prompt the agent is not invoked and the warning is shown; when
\* criar_agente fails agent_executor stays null, and a run that finds it null
\* and merges a table attempts the construction.
C9_AgentInvokedOnlyWhenReady ==
    [][ /\ invoked' # None => (agent_executor' # None /\ invoked' = agent_executor')
        /\ (agent_executor = None /\ agent_executor' # None) =>
              /\ TruthyStr(gemini_api_key')
              /\ uploaded_cabecalho' # None /\ uploaded_itens' # None
              /\ resultado' # None /\ resultado'[1].ret.df # None
        /\ (prompt' # None /\ agent_executor' = None) => (invoked' = None /\ Warned')
        /\ (prompt' # None /\ agent_executor' # None) => invoked' = agent_executor'
        /\ FailedToCreate' => agent_executor' = None
        /\ (agent_executor = None /\ resultado' # None /\ resultado'[1].ret.df # None)
              => (agent_executor' # None \/ FailedToCreate')
      ]_vars

\* C10: the chat history is append-only; every submitted prompt is appended
\* as one 'user' message, followed by exactly one 'assistant' message (the
\* answer or the error text) if the agent is ready and by none if it is not;
\* an invocation that raises keeps the agent; so every 'assistant' message
\* follows a 'user' message and there are never more 'assistant' than 'user'
\* messages.
C10_ChatHistoryAppendOnly ==
    [][ /\ IsPrefix(messages, messages')
        /\ prompt' = None => messages' = messages
        /\ (prompt' # None /\ agent_executor' = None) =>
              messages' = Append(messages, Msg("user", prompt'[1]))
        /\ (prompt' # None /\ agent_executor' # None) =>
              \E a \in {RespostaDoAgente, ErroNaPergunta} :
                 messages' = messages \o <<Msg("user", prompt'[1]), Msg("assistant", a)>>
        /\ agent_executor # None => agent_executor' = agent_executor
        /\ \A n \in 1..Len(messages') :
              messages'[n].role = "assistant" => (n > 1 /\ messages'[n - 1].role = "user")
        /\ NAssistant(messages') <= NUser(messages')
      ]_vars

====
